---- MODULE Spec2Model ----
(***************************************************************************)
(* Lifecycle managers of two lithops backends:                             *)
(*   - IBMVPCInstanceClient (standalone/backends/ibm_vpc/ibm_vpc.py)       *)
(*   - GCPCloudRunBackend   (serverless/backends/gcp_cloudrun/cloudrun.py) *)
(* Each handler is cut at its remote calls: one action per remote call,    *)
(* with the local code that follows it up to the next remote call.         *)
(* A remote call may fail (raise) whenever it is issued.                   *)
(***************************************************************************)
EXTENDS Integers, Sequences, FiniteSets, TLC

(***************************************************************************)
(* Bounds of the model                                                     *)
(***************************************************************************)
MaxInst == 2        \* instance ids the provider can hand out
MaxFip == 2         \* floating-ip ids the provider can hand out
MaxTok == 2         \* tokens the identity provider can hand out

NONE == "<None>"    \* python None, for strings
NoId == 0           \* python None, for resource ids

Threads == {"t1", "t2"}
InstIds == 1..MaxInst
FipIds == 1..MaxFip

\* the (job_key, call_id) pairs create is called with
Identities == {<<NONE, NONE>>, <<"a", NONE>>, <<"a", "c">>}
\* the names namegenerator.gen() draws from
RandNames == {"x"}

VARIABLES
    inst,           \* provider: instance id -> [name, status]
    fip,            \* provider: floating ip id -> [name, target]
    nextInst,       \* provider: next fresh instance id
    nextFip,        \* provider: next fresh floating ip id
    obj,            \* the client object: self.instance_id, self.instance_data
    config,         \* self.config
    session_auth,   \* self.session.headers['Authorization']
    tm,             \* self.iam_token_manager
    th,             \* per caller: position, locals and the calls it issued
    last,           \* the last completed operation, when it is a create that returned
    svc,            \* Cloud Run: service name -> "absent", "provisioning" or "ready"
    gcp,            \* the GCPCloudRunBackend object
    rt              \* per caller of the Cloud Run backend: position, locals, calls

IbmVars == <<inst, fip, nextInst, nextFip, obj, config, session_auth, tm, th, last>>
RunVars == <<svc, gcp, rt>>
vars == <<IbmVars, RunVars>>

Absent == [name |-> NONE, status |-> "absent"]
NoFip == [name |-> NONE, target |-> NoId]

Exists(i) == i \in InstIds /\ inst[i].status # "absent"
FipExists(f) == f \in FipIds /\ fip[f].name # NONE

\* the address of a floating ip, a non-empty string
Address(f) == f

Idle ==
    [op |-> "none", pc |-> "idle", job_key |-> NONE, call_id |-> NONE,
     instance |-> NoId, vsi_exists |-> FALSE, fip_name |-> NONE,
     floating_ip |-> NoId, listed |-> <<>>, todo |-> <<>>, mode |-> "none", expected |-> "none",
     calls |-> <<>>, created |-> NoId, allocated |-> NoId, bound |-> NoId,
     token |-> 0, epoch |-> 0, r_type |-> NONE, name |-> NONE,
     outcome |-> "none", ret |-> NoId, err |-> "none"]

NoLast == [job_key |-> NONE, call_id |-> NONE, ret |-> NoId]

Call(api, arg, ok) == [api |-> api, arg |-> arg, ok |-> ok]

\* the caller's record when its operation ends by an exception
Raised(r, kind) == [r EXCEPT !.pc = "done", !.outcome = "raised", !.err = kind]

(***************************************************************************)
(* _generate_name; rnd is the result of namegenerator.gen()                *)
(***************************************************************************)
_generate_name(r_type, job_key, call_id, rnd) ==
    IF job_key # NONE /\ call_id # NONE
    THEN "lithops" \o job_key \o "-" \o call_id \o "-" \o r_type
    ELSE "lithops-" \o rnd \o "-" \o r_type

\* all orders in which a list call may return the members of S
Orders(S) ==
    {s \in [1..Cardinality(S) -> S] : \A i, j \in 1..Cardinality(S) : i # j => s[i] # s[j]}

(***************************************************************************)
(* __init__, lines 18-61, with a config that names no instance and sets    *)
(* delete_on_dismantle to d                                                *)
(***************************************************************************)
InitWith(d) ==
    /\ inst = [i \in InstIds |-> Absent]
    /\ fip = [f \in FipIds |-> NoFip]
    /\ nextInst = 1
    /\ nextFip = 1
    /\ obj = [instance_id |-> NoId, instance_data |-> NONE]
    /\ config = [instance_id |-> NoId, ip_address |-> NoId,
                 delete_on_dismantle |-> d, token |-> 0]
    /\ session_auth = 0
    /\ tm = [token |-> 0, valid |-> FALSE, refreshing |-> FALSE, issued |-> 0, epoch |-> 1]
    /\ th = [t \in Threads |-> Idle]
    /\ last = NoLast

Provider == <<inst, fip, nextInst, nextFip>>
Auth == <<session_auth, tm>>

\* the names one _generate_name call may return
NameChoices(r_type, job_key, call_id) ==
    {_generate_name(r_type, job_key, call_id, rnd) : rnd \in RandNames}

(***************************************************************************)
(* create, line 244-246                                                    *)
(***************************************************************************)
CallCreate(t, job_key, call_id) ==
    /\ th[t].pc = "idle"
    /\ obj' = [obj EXCEPT !.instance_id = NoId]
    /\ th' = [th EXCEPT ![t] = [Idle EXCEPT !.op = "create", !.pc = "c_list",
                                            !.job_key = job_key, !.call_id = call_id]]
    /\ UNCHANGED <<Provider, config, Auth, last, RunVars>>

(***************************************************************************)
(* create, the loop of lines 251-255 from position k of all_instances on;  *)
(* names[k] is what _generate_name returns in iteration k, acc the values  *)
(* of vsi_exists and self.instance_id so far                               *)
(***************************************************************************)
RECURSIVE ScanInstancesNoId(_, _, _, _)
ScanInstancesNoId(all_instances, names, k, acc) ==
    IF k > Len(all_instances) THEN acc
    ELSE ScanInstancesNoId(all_instances, names, k + 1,
            IF inst[all_instances[k]].name = names[k]
            THEN [acc EXCEPT !.vsi_exists = TRUE]
            ELSE acc)

RECURSIVE ScanInstances(_, _, _, _)
ScanInstances(all_instances, names, k, acc) ==
    IF k > Len(all_instances) THEN acc
    ELSE ScanInstances(all_instances, names, k + 1,
            IF inst[all_instances[k]].name = names[k]
            THEN [vsi_exists |-> TRUE, instance_id |-> all_instances[k]]
            ELSE acc)

\* the loop variable `instance` after the loop of lines 251-255
LoopVariable(all_instances) ==
    IF Len(all_instances) = 0 THEN NoId ELSE all_instances[Len(all_instances)]

(***************************************************************************)
(* create, lines 249-256: list_instances and the search by name            *)
(***************************************************************************)
CreateListInstances(t) ==
    /\ th[t].pc = "c_list"
    /\ \E ok \in BOOLEAN :
        LET r == th[t]
            c == Append(r.calls, Call("list_instances", NoId, ok))
        IN  IF ~ok
            THEN /\ th' = [th EXCEPT ![t] = Raised([r EXCEPT !.calls = c], "list")]
                 /\ obj' = obj
            ELSE \E all_instances \in Orders({i \in InstIds : Exists(i)}) :
                 \E names \in [1..Len(all_instances) ->
                                  NameChoices("instance", r.job_key, r.call_id)] :
                    LET found == ScanInstances(all_instances, names, 1,
                                   [vsi_exists |-> FALSE, instance_id |-> obj.instance_id])
                    IN  /\ obj' = [obj EXCEPT !.instance_id = found.instance_id]
                        /\ th' = [th EXCEPT ![t] =
                                    [r EXCEPT !.calls = c,
                                              !.vsi_exists = found.vsi_exists,
                                              !.instance = LoopVariable(all_instances),
                                              !.pc = IF found.vsi_exists
                                                     THEN "c_fip_list" ELSE "c_create"]]
    /\ UNCHANGED <<Provider, config, Auth, last, RunVars>>

(***************************************************************************)
(* create, lines 257-264, and _create_instance, lines 130-163              *)
(***************************************************************************)
CreateInstance(t) ==
    /\ th[t].pc = "c_create"
    /\ \E ok \in BOOLEAN, rnd \in RandNames :
        LET r == th[t]
            name == _generate_name("instance", r.job_key, r.call_id, rnd)
            accepted == /\ ok
                        /\ nextInst <= MaxInst
                        /\ ~\E i \in InstIds : Exists(i) /\ inst[i].name = name
            c == Append(r.calls, Call("create_instance", nextInst, accepted))
        IN  IF accepted
            THEN /\ inst' = [inst EXCEPT ![nextInst] = [name |-> name, status |-> "starting"]]
                 /\ nextInst' = nextInst + 1
                 /\ obj' = [obj EXCEPT !.instance_id = nextInst]
                 /\ config' = [config EXCEPT !.instance_id = nextInst]
                 /\ th' = [th EXCEPT ![t] = [r EXCEPT !.calls = c, !.instance = nextInst,
                                                      !.created = nextInst,
                                                      !.pc = "c_fip_list"]]
            ELSE /\ th' = [th EXCEPT ![t] = Raised([r EXCEPT !.calls = c], "create_instance")]
                 /\ UNCHANGED <<inst, nextInst, obj, config>>
    /\ UNCHANGED <<fip, nextFip, Auth, last, RunVars>>

\* create, lines 268-273: the return of create with the address of floating ip f
CreateReturns(r, f) ==
    [r EXCEPT !.pc = "done", !.outcome = "returned", !.ret = obj.instance_id,
              !.floating_ip = f]

\* _create_and_attach_floating_ip, lines 193-195: is the floating ip with this
\* target already attached to the primary interface of instance?
AlreadyAttached(target, instance) ==
    target # NoId /\ target = instance

(***************************************************************************)
(* _create_and_attach_floating_ip, lines 166-178 and 193-198               *)
(***************************************************************************)
CreateListFloatingIps(t) ==
    /\ th[t].pc = "c_fip_list"
    /\ \E ok \in BOOLEAN, rnd \in RandNames :
        LET r == th[t]
            floating_ip_name == _generate_name("fip", r.job_key, r.call_id, rnd)
            matches == {f \in FipIds : fip[f].name = floating_ip_name}
            \* names are unique at the provider: at most one vip matches
            floating_ip == IF ok /\ matches # {} THEN CHOOSE f \in matches : TRUE ELSE NoId
            \* the floating ip of that name that is attached to instance, if any
            attached == {f \in matches : AlreadyAttached(fip[f].target, r.instance)}
            r1 == [r EXCEPT !.calls = Append(r.calls, Call("list_floating_ips", NoId, ok)),
                            !.fip_name = floating_ip_name,
                            !.bound = IF attached # {} THEN CHOOSE f \in attached : TRUE
                                      ELSE NoId,
                            !.floating_ip = floating_ip]
        IN  IF floating_ip = NoId
            THEN /\ th' = [th EXCEPT ![t] = [r1 EXCEPT !.pc = "c_fip_create"]]
                 /\ config' = config
            ELSE IF AlreadyAttached(fip[floating_ip].target, r.instance)
            THEN /\ th' = [th EXCEPT ![t] = CreateReturns(r1, floating_ip)]
                 /\ config' = [config EXCEPT !.ip_address = Address(floating_ip)]
            ELSE /\ th' = [th EXCEPT ![t] = [r1 EXCEPT !.pc = "c_attach"]]
                 /\ config' = config
    /\ UNCHANGED <<Provider, obj, Auth, last, RunVars>>

\* create, lines 274-276: the except branch enters _delete_instance
Rollback(r) == [r EXCEPT !.pc = "d_list", !.mode = "rollback"]

(***************************************************************************)
(* _create_and_attach_floating_ip, lines 177-190                           *)
(***************************************************************************)
CreateFloatingIp(t) ==
    /\ th[t].pc = "c_fip_create"
    /\ \E ok \in BOOLEAN :
        LET r == th[t]
            accepted == /\ ok
                        /\ nextFip <= MaxFip
                        /\ ~\E f \in FipIds : fip[f].name = r.fip_name
            c == Append(r.calls, Call("create_floating_ip", nextFip, accepted))
        IN  IF accepted
            THEN /\ fip' = [fip EXCEPT ![nextFip] = [name |-> r.fip_name, target |-> NoId]]
                 /\ nextFip' = nextFip + 1
                 /\ th' = [th EXCEPT ![t] = [r EXCEPT !.calls = c, !.floating_ip = nextFip,
                                                      !.allocated = nextFip,
                                                      !.pc = "c_attach"]]
            ELSE /\ th' = [th EXCEPT ![t] = Rollback([r EXCEPT !.calls = c])]
                 /\ UNCHANGED <<fip, nextFip>>
    /\ UNCHANGED <<inst, nextInst, obj, config, Auth, last, RunVars>>

(***************************************************************************)
(* _create_and_attach_floating_ip, lines 200-208, and create, 268-277      *)
(***************************************************************************)
AttachFloatingIp(t) ==
    /\ th[t].pc = "c_attach"
    /\ \E ok \in BOOLEAN :
        LET r == th[t]
            accepted == ok /\ Exists(r.instance) /\ FipExists(r.floating_ip)
            c == Append(r.calls, Call("add_floating_ip", r.floating_ip, accepted))
        IN  IF accepted
            THEN /\ fip' = [fip EXCEPT ![r.floating_ip].target = r.instance]
                 /\ config' = [config EXCEPT !.ip_address = Address(r.floating_ip)]
                 /\ th' = [th EXCEPT ![t] = CreateReturns([r EXCEPT !.calls = c],
                                                          r.floating_ip)]
            ELSE /\ th' = [th EXCEPT ![t] = Rollback([r EXCEPT !.calls = c])]
                 /\ UNCHANGED <<fip, config>>
    /\ UNCHANGED <<inst, nextInst, nextFip, obj, Auth, last, RunVars>>

DeleteListInterfacesSkipsRelease(t) ==
    /\ th[t].pc = "d_list"
    /\ th' = [th EXCEPT ![t].pc = "d_inst"]
    /\ UNCHANGED <<inst, fip, nextInst, nextFip, obj, config, session_auth, tm, last, RunVars>>

(***************************************************************************)
(* _delete_instance, lines 228-229: list_instance_network_interfaces       *)
(***************************************************************************)
DeleteListInterfaces(t) ==
    /\ th[t].pc = "d_list"
    /\ \E ok \in BOOLEAN :
        LET r == th[t]
            id == config.instance_id
            accepted == ok /\ Exists(id)
            c == Append(r.calls, Call("list_instance_network_interfaces", id, accepted))
        IN  IF accepted
            THEN \E floating_ips \in Orders({f \in FipIds : fip[f].target = id}) :
                    th' = [th EXCEPT ![t] =
                             [r EXCEPT !.calls = c, !.listed = floating_ips,
                                       !.todo = floating_ips,
                                       !.pc = IF floating_ips = <<>>
                                              THEN "d_inst" ELSE "d_fip"]]
            ELSE th' = [th EXCEPT ![t] = Raised([r EXCEPT !.calls = c], "teardown")]
    /\ UNCHANGED <<Provider, obj, config, Auth, last, RunVars>>

(***************************************************************************)
(* _delete_instance, lines 231-233: delete_floating_ip of the next listed  *)
(* floating ip                                                             *)
(***************************************************************************)
DeleteFloatingIp(t) ==
    /\ th[t].pc = "d_fip"
    /\ \E ok \in BOOLEAN :
        LET r == th[t]
            f == Head(r.todo)
            accepted == ok /\ FipExists(f)
            c == Append(r.calls, Call("delete_floating_ip", f, accepted))
        IN  IF accepted
            THEN /\ fip' = [fip EXCEPT ![f] = NoFip]
                 /\ th' = [th EXCEPT ![t] =
                             [r EXCEPT !.calls = c, !.todo = Tail(r.todo),
                                       !.pc = IF Tail(r.todo) = <<>>
                                              THEN "d_inst" ELSE "d_fip"]]
            ELSE /\ th' = [th EXCEPT ![t] = Raised([r EXCEPT !.calls = c], "teardown")]
                 /\ fip' = fip
    /\ UNCHANGED <<inst, nextInst, nextFip, obj, config, Auth, last, RunVars>>

\* the caller's record after _delete_instance returned: create re-raises the
\* floating-ip error (line 277), stop returns (line 283)
Deleted(r) ==
    IF r.mode = "rollback"
    THEN Raised(r, "floating_ip")
    ELSE [r EXCEPT !.pc = "done", !.outcome = "returned"]

(***************************************************************************)
(* _delete_instance, lines 236-237: delete_instance                        *)
(***************************************************************************)
DeleteInstance(t) ==
    /\ th[t].pc = "d_inst"
    /\ \E ok \in BOOLEAN :
        LET r == th[t]
            id == config.instance_id
            accepted == ok /\ Exists(id)
            c == Append(r.calls, Call("delete_instance", id, accepted))
        IN  IF accepted
            THEN /\ inst' = [inst EXCEPT ![id] = Absent]
                 /\ fip' = [f \in FipIds |->
                              IF fip[f].target = id
                              THEN [fip[f] EXCEPT !.target = NoId] ELSE fip[f]]
                 /\ th' = [th EXCEPT ![t] = Deleted([r EXCEPT !.calls = c])]
            ELSE /\ th' = [th EXCEPT ![t] = Raised([r EXCEPT !.calls = c], "teardown")]
                 /\ UNCHANGED <<inst, fip>>
    /\ UNCHANGED <<nextInst, nextFip, obj, config, Auth, last, RunVars>>

\* create_instance_action, lines 102-105
ExpectedStatus(action) ==
    IF action \in {"start", "reboot"} THEN "running" ELSE "stopped"

(***************************************************************************)
(* stop, lines 279-287                                                     *)
(***************************************************************************)
CallStop(t) ==
    /\ th[t].pc = "idle"
    /\ th' = [th EXCEPT ![t] =
                IF config.delete_on_dismantle
                THEN [Idle EXCEPT !.op = "stop", !.pc = "d_list", !.mode = "stop"]
                ELSE [Idle EXCEPT !.op = "stop", !.pc = "a_auth", !.mode = "stop",
                                  !.expected = ExpectedStatus("stop")]]
    /\ UNCHANGED <<Provider, obj, config, Auth, last, RunVars>>

(***************************************************************************)
(* start, lines 239-242                                                    *)
(***************************************************************************)
CallStart(t) ==
    /\ th[t].pc = "idle"
    /\ th' = [th EXCEPT ![t] = [Idle EXCEPT !.op = "start", !.pc = "a_auth",
                                            !.mode = "start",
                                            !.expected = ExpectedStatus("start")]]
    /\ UNCHANGED <<Provider, obj, config, Auth, last, RunVars>>

(***************************************************************************)
(* IBMTokenManager, the credential cache.  tm.token is the cached token (0 *)
(* for none) and tm.valid says that it is valid beyond the safety margin;  *)
(* tm.refreshing says that a refresh is in flight.  Tokens are numbered as *)
(* the identity provider issues them (tm.issued); tm.epoch counts the      *)
(* periods in which no valid token is cached, the first from construction. *)
(***************************************************************************)
\* get_token returns the cached token without a refresh
CacheValid == tm.valid

NeverBlocked == FALSE

\* get_token makes the caller wait: a refresh is in flight
Blocked == tm.refreshing

\* the token manager after a refresh that fetched token
Refreshed(token) ==
    [tm EXCEPT !.token = token, !.valid = TRUE, !.refreshing = FALSE, !.issued = token]

\* the token manager after a refresh that failed
RefreshFailed == [tm EXCEPT !.refreshing = FALSE]

\* the cached token comes within the margin of its expiry
Expire ==
    /\ tm.valid /\ tm.epoch < MaxTok
    /\ tm' = [tm EXCEPT !.valid = FALSE, !.epoch = @ + 1]
    /\ UNCHANGED <<Provider, obj, config, session_auth, th, last, RunVars>>

\* the pc after get_token returned to _authorize_session
Returned(pc) == IF pc \in {"a_auth", "a_refresh"} THEN "a_store" ELSE "g_store"

\* the pc after _authorize_session returned
Authorized(pc) == IF pc = "a_header" THEN "a_post" ELSE "g_get"

(***************************************************************************)
(* _authorize_session, line 64, as called from create_instance_action      *)
(* (line 112) and from get_instance (line 73): get_token is called; with a *)
(* valid cached token it returns it at once, else it starts a refresh,     *)
(* unless it has to wait for one                                           *)
(***************************************************************************)
AuthorizeSession(t) ==
    /\ th[t].pc \in {"a_auth", "g_auth"}
    /\ LET r == th[t]
       IN  IF CacheValid
           THEN /\ th' = [th EXCEPT ![t] = [r EXCEPT !.pc = Returned(r.pc),
                                                     !.token = tm.token,
                                                     !.epoch = tm.epoch]]
                /\ tm' = tm
                /\ UNCHANGED <<config, session_auth>>
           ELSE /\ ~Blocked
                /\ tm' = [tm EXCEPT !.refreshing = TRUE]
                /\ th' = [th EXCEPT ![t].pc = IF r.pc = "a_auth" THEN "a_refresh"
                                              ELSE "g_refresh"]
                /\ UNCHANGED <<config, session_auth>>
    /\ UNCHANGED <<Provider, obj, last, RunVars>>

CompleteRefreshClearsFirst(t) ==
    /\ th[t].pc \in {"a_refresh", "g_refresh"}
    /\ LET r == th[t]
       IN  \/ /\ th' = [th EXCEPT ![t] = Raised(r, "auth")]
              /\ tm' = RefreshFailed
              /\ config' = [config EXCEPT !.token = 0]
              /\ session_auth' = 0
           \/ /\ tm.issued < MaxTok
              /\ tm' = Refreshed(tm.issued + 1)
              /\ UNCHANGED <<config, session_auth>>
              /\ th' = [th EXCEPT ![t] = [r EXCEPT !.pc = Returned(r.pc),
                                                   !.token = tm.issued + 1,
                                                   !.epoch = tm.epoch]]
    /\ UNCHANGED <<Provider, obj, last, RunVars>>

(***************************************************************************)
(* _authorize_session, line 64, when the refresh of get_token ends: it     *)
(* raises, and the assignments of lines 64 and 65 are not reached, or it   *)
(* returns the token fetched                                               *)
(***************************************************************************)
CompleteRefresh(t) ==
    /\ th[t].pc \in {"a_refresh", "g_refresh"}
    /\ LET r == th[t]
       IN  \/ /\ th' = [th EXCEPT ![t] = Raised(r, "auth")]
              /\ tm' = RefreshFailed
              /\ UNCHANGED <<config, session_auth>>
           \/ /\ tm.issued < MaxTok
              /\ tm' = Refreshed(tm.issued + 1)
              /\ UNCHANGED <<config, session_auth>>
              /\ th' = [th EXCEPT ![t] = [r EXCEPT !.pc = Returned(r.pc),
                                                   !.token = tm.issued + 1,
                                                   !.epoch = tm.epoch]]
    /\ UNCHANGED <<Provider, obj, last, RunVars>>

\* _authorize_session, line 64: the token get_token returned to this caller
\* is stored in config['token']
StoreToken(t) ==
    /\ th[t].pc \in {"a_store", "g_store"}
    /\ config' = [config EXCEPT !.token = th[t].token]
    /\ th' = [th EXCEPT ![t].pc = IF th[t].pc = "a_store" THEN "a_header" ELSE "g_header"]
    /\ UNCHANGED <<Provider, obj, Auth, last, RunVars>>

\* _authorize_session, line 65: the header is set from config['token'] as it
\* is now
SetHeader(t) ==
    /\ th[t].pc \in {"a_header", "g_header"}
    /\ session_auth' = config.token
    /\ th' = [th EXCEPT ![t].pc = Authorized(th[t].pc)]
    /\ UNCHANGED <<Provider, obj, config, tm, last, RunVars>>

\* the status of an instance after the provider accepted an action on it
AfterAction(status, action) ==
    IF action = "stop"
    THEN (IF status = "stopped" THEN "stopped" ELSE "stopping")
    ELSE (IF status = "running" THEN "running" ELSE "starting")

\* get_instance, lines 71-72: the url is built from self.instance_id, and
\* None + str raises
GetInstance(r) ==
    IF obj.instance_id = NoId
    THEN Raised(r, "url")
    ELSE [r EXCEPT !.instance = obj.instance_id, !.pc = "g_auth"]

(***************************************************************************)
(* create_instance_action, lines 110-120: the POST of the action on        *)
(* config['instance_id'], then the first get_instance                      *)
(***************************************************************************)
ActionPost(t) ==
    /\ th[t].pc = "a_post"
    /\ \E ok \in BOOLEAN :
        LET r == th[t]
            id == config.instance_id
            accepted == ok /\ Exists(id)
            c == Append(r.calls, Call(r.mode, id, accepted))
        IN  IF accepted
            THEN /\ inst' = [inst EXCEPT ![id].status = AfterAction(@, r.mode)]
                 /\ th' = [th EXCEPT ![t] = GetInstance([r EXCEPT !.calls = c])]
            ELSE /\ th' = [th EXCEPT ![t] = Raised([r EXCEPT !.calls = c], "action")]
                 /\ inst' = inst
    /\ UNCHANGED <<fip, nextInst, nextFip, obj, config, Auth, last, RunVars>>

WaitIsOverAtOnce(status, expected) == TRUE

\* create_instance_action, line 121: the wait ends
WaitIsOver(status, expected) == status = expected

(***************************************************************************)
(* get_instance, lines 74-75, and the loop of create_instance_action,      *)
(* lines 120-123                                                           *)
(***************************************************************************)
ActionPoll(t) ==
    /\ th[t].pc = "g_get"
    /\ \E ok \in BOOLEAN :
        LET r == th[t]
            id == r.instance
            \* the polls of one wait are logged once
            c == IF r.calls[Len(r.calls)] = Call("get_instance", id, ok)
                 THEN r.calls ELSE Append(r.calls, Call("get_instance", id, ok))
        IN  IF ~ok
            THEN /\ th' = [th EXCEPT ![t] = Raised([r EXCEPT !.calls = c], "get")]
                 /\ obj' = obj
            ELSE IF ~Exists(id)
            THEN /\ obj' = [obj EXCEPT !.instance_data = "errors"]
                 /\ th' = [th EXCEPT ![t] = Raised([r EXCEPT !.calls = c], "status")]
            ELSE /\ obj' = [obj EXCEPT !.instance_data = inst[id].status]
                 /\ th' = [th EXCEPT ![t] =
                             IF WaitIsOver(inst[id].status, r.expected)
                             THEN [r EXCEPT !.calls = c, !.pc = "done",
                                            !.outcome = "returned"]
                             ELSE GetInstance([r EXCEPT !.calls = c])]
    /\ UNCHANGED <<Provider, config, Auth, last, RunVars>>

\* the provider completes a pending status change of instance i
Progress(i) ==
    /\ inst[i].status \in {"starting", "stopping"}
    /\ inst' = [inst EXCEPT ![i].status = IF @ = "starting" THEN "running" ELSE "stopped"]
    /\ UNCHANGED <<fip, nextInst, nextFip, obj, config, Auth, th, last, RunVars>>

\* the caller takes the result of its operation
Return(t) ==
    /\ th[t].pc = "done"
    /\ last' = IF th[t].op = "create" /\ th[t].outcome = "returned"
               THEN [job_key |-> th[t].job_key, call_id |-> th[t].call_id,
                     ret |-> th[t].ret]
               ELSE NoLast
    /\ th' = [th EXCEPT ![t] = Idle]
    /\ UNCHANGED <<Provider, obj, config, Auth, RunVars>>

\* the job keys and call ids the names are generated for
Keys == {"a", "a-b", "b", "b-c", "c"}
\* the resource types create asks names for (lines 141, 147, 151, 166)
ResourceTypes == {"instance", "fip", "volume", "boot"}

\* a call of _generate_name, lines 125-128
GenerateName(t) ==
    /\ th[t].pc = "name"
    /\ \E r_type \in ResourceTypes, rnd \in RandNames :
          th' = [th EXCEPT ![t].pc = "done", ![t].outcome = "returned",
                           ![t].r_type = r_type,
                           ![t].name = _generate_name(r_type, th[t].job_key,
                                                      th[t].call_id, rnd)]
    /\ UNCHANGED <<Provider, obj, config, Auth, last, RunVars>>

\* no other caller is inside an operation
Alone(t) == \A u \in Threads \ {t} : th[u].pc = "idle"

(***************************************************************************)
(* GCPCloudRunBackend.  The strings the code takes apart are sequences of  *)
(* characters.                                                             *)
(***************************************************************************)
NConds == 2         \* conditions a service status reports

\* str.replace(old, new), old one character
RECURSIVE Replace(_, _, _)
Replace(s, old, new) ==
    IF s = <<>> THEN <<>>
    ELSE (IF Head(s) = old THEN new ELSE <<Head(s)>>) \o Replace(Tail(s), old, new)

\* str(n) for a natural number n
RECURSIVE IntToStr(_)
IntToStr(n) ==
    LET digit == <<"0", "1", "2", "3", "4", "5", "6", "7", "8", "9">>[(n % 10) + 1]
    IN  IF n < 10 THEN <<digit>> ELSE IntToStr(n \div 10) \o <<digit>>

\* lithops.version.__version__
Version == <<"2", ".", "2">>

\* cr_config.DEFAULT_RUNTIME_NAME
DEFAULT_RUNTIME_NAME == <<"d", "e", "f">>

RuntimeNames == {DEFAULT_RUNTIME_NAME, <<"p", "y", ".", "3">>}
Memories == {256}
Routes == {"/", "/preinstalls"}
StatusCodes == {200, 202, 500}
\* the documents a unit answers with: {activationId: ..}, {preinstalls: ..}, {}
Bodies == {"activationId", "preinstalls", "empty"}
CondStatus == {"True", "False", "Unknown"}

_format_service_name(runtime_name, runtime_memory) ==
    <<"l", "i", "t", "h", "o", "p", "s", "-", "-">>
        \o Replace(Version, ".", <<"-">>) \o <<"-", "-">>
        \o Replace(runtime_name, ".", <<>>) \o <<"-", "-">>
        \o IntToStr(runtime_memory) \o <<"m", "b">>

ServiceNames == {_format_service_name(n, m) : n \in RuntimeNames, m \in Memories}

\* sub occurs in s at position i
IsAt(s, sub, i) ==
    i + Len(sub) - 1 <= Len(s) /\ SubSeq(s, i, i + Len(sub) - 1) = sub

\* str.replace(old, new, count); a negative count replaces every occurrence
RECURSIVE ReplaceCount(_, _, _, _)
ReplaceCount(s, old, new, count) ==
    IF s = <<>> \/ count = 0 THEN s
    ELSE IF IsAt(s, old, 1)
    THEN new \o ReplaceCount(SubSeq(s, Len(old) + 1, Len(s)), old, new, count - 1)
    ELSE <<Head(s)>> \o ReplaceCount(Tail(s), old, new, count)

\* str.rsplit(sep, 1): the split at the last occurrence of sep
RSplit1(s, sep) ==
    LET at == {i \in 1..Len(s) : IsAt(s, sep, i)}
    IN  IF at = {} THEN <<s>>
        ELSE LET i == CHOOSE i \in at : \A j \in at : j <= i
             IN  <<SubSeq(s, 1, i - 1), SubSeq(s, i + Len(sep), Len(s))>>

\* int(s) accepts s: a string of decimal digits
IsNumber(s) ==
    s # <<>> /\ \A k \in 1..Len(s) : \E d \in 0..9 : IntToStr(d) = <<s[k]>>

\* int(s) for a string of decimal digits
RECURSIVE StrToInt(_)
StrToInt(s) ==
    IF s = <<>> THEN 0
    ELSE StrToInt(SubSeq(s, 1, Len(s) - 1)) * 10
            + (CHOOSE d \in 0..9 : IntToStr(d) = <<s[Len(s)]>>)

\* _unformat_service_name, lines 63-67; <<"ValueError">> stands for the
\* exception of the unpacking or of int()
_unformat_service_name(service_name) ==
    LET parts == RSplit1(service_name, <<"-", "-">>)
    IN  IF Len(parts) # 2 THEN <<"ValueError">>
        ELSE LET runtime_name == parts[1]
                 image_name == ReplaceCount(
                                  ReplaceCount(runtime_name, <<"-", "-">>, <<"/">>, 1),
                                  <<"-", "-">>, <<":">>, -1)
                 memory == ReplaceCount(parts[2], <<"m", "b">>, <<>>, -1)
             IN  IF IsNumber(memory) THEN <<image_name, StrToInt(memory)>>
                 ELSE <<"ValueError">>

MaxName == 3        \* length of the runtime names the name functions are tried on

\* the characters of the runtime names tried: a letter, and the characters
\* the two functions treat specially
NameChars == {"p", ".", "-", "/", ":"}
NameInputs == UNION {[1..n -> NameChars] : n \in 1..MaxName}

NoUrl == <<>>
\* the url the provider gives the service of this name
Url(name) == <<"https://">> \o name

NoSess == [url |-> NoUrl, route |-> NONE]
NoRes == [conditions |-> <<>>, url |-> NoUrl]

\* the provider reports every condition of the service as met
Reconciled(conditions) == \A k \in 1..NConds : conditions[k] = "True"

\* the documents services.get may return for a service in this state; a
\* service that is not ready may or may not have its url yet
Responses(state, name) ==
    IF state = "ready"
    THEN {[conditions |-> [k \in 1..NConds |-> "True"], url |-> Url(name)]}
    ELSE {[conditions |-> c, url |-> u] :
             c \in {c \in [1..NConds -> CondStatus] : ~Reconciled(c)},
             u \in {NoUrl, Url(name)}}

RunIdle ==
    [op |-> "none", pc |-> "idle", runtime_name |-> <<>>, memory |-> 0,
     route |-> NONE, return_result |-> FALSE, nested |-> FALSE,
     retry |-> 0, polls |-> 0, res |-> NoRes, sess |-> NoSess, calls |-> <<>>,
     ready_at_call |-> FALSE, existed_at_call |-> FALSE,
     status |-> 0, posted_to |-> NoSess,
     service_name |-> <<>>, unformatted |-> <<>>,
     cached_sess |-> NoSess, cached_route |-> NONE, built |-> FALSE,
     outcome |-> "none", err |-> "none", ret |-> NONE]

\* __init__, lines 51-54
InitRunVars ==
    /\ svc = [n \in ServiceNames |-> "absent"]
    /\ gcp = [_invoker_sess |-> NoSess, _invoker_sess_route |-> "/",
              _service_url |-> NoUrl, _api_resource |-> FALSE]
    /\ rt = [t \in Threads |-> RunIdle]

\* the caller's record when its operation ends by an exception
RunRaised(r, kind) == [r EXCEPT !.pc = "done", !.outcome = "raised", !.err = kind]

NeedsSessionOnlyFirst(g, route) == g._invoker_sess = NoSess

\* _build_invoker_sess, line 83
NeedsSession(g, route) ==
    g._invoker_sess = NoSess \/ route # g._invoker_sess_route

\* _build_invoker_sess, lines 85-90, once the endpoint is known
BuildSession(g, route) ==
    [g EXCEPT !._invoker_sess = [url |-> g._service_url, route |-> route],
              !._invoker_sess_route = route]

(***************************************************************************)
(* invoke, lines 143-148, with _build_invoker_sess, lines 83-90, and       *)
(* _get_service_endpoint, line 94, up to the first remote call or to the   *)
(* return of _build_invoker_sess: the caller's record and the backend      *)
(* object after it                                                         *)
(***************************************************************************)
EnterInvoke(r, g) ==
    LET \* the cached session and its route as invoke finds them
        r0 == [r EXCEPT !.cached_sess = g._invoker_sess,
                        !.cached_route = g._invoker_sess_route]
    IN  IF NeedsSession(g, r.route)
        THEN IF g._service_url = NoUrl
             THEN <<[r0 EXCEPT !.pc = "i_get"], g>>
             ELSE <<[r0 EXCEPT !.pc = "i_sess", !.built = TRUE], BuildSession(g, r.route)>>
        ELSE <<[r0 EXCEPT !.pc = "i_sess"], g>>

(***************************************************************************)
(* invoke, lines 142-148                                                   *)
(***************************************************************************)
CallInvoke(t, runtime_name, memory, route, return_result) ==
    /\ rt[t].pc = "idle"
    /\ LET r == [RunIdle EXCEPT
                    !.op = "invoke", !.runtime_name = runtime_name, !.memory = memory,
                    !.route = route, !.return_result = return_result,
                    !.ready_at_call =
                        svc[_format_service_name(runtime_name, memory)] = "ready"]
           e == EnterInvoke(r, gcp)
       IN  /\ rt' = [rt EXCEPT ![t] = e[1]]
           /\ gcp' = e[2]
    /\ UNCHANGED <<svc, IbmVars>>

(***************************************************************************)
(* _get_service_endpoint, lines 94-101, called from _build_invoker_sess    *)
(* (line 85, then lines 86-91) or from invoke (line 159)                   *)
(***************************************************************************)
GetEndpoint(t) ==
    /\ rt[t].pc \in {"i_get", "i_get_post"}
    /\ \E ok \in BOOLEAN :
        LET r == rt[t]
            name == _format_service_name(r.runtime_name, r.memory)
            found == ok /\ svc[name] # "absent"
            r1 == [r EXCEPT !.calls = Append(r.calls, Call("services.get", name, found))]
        IN  IF ~found
            THEN /\ rt' = [rt EXCEPT ![t] = RunRaised(r1, "get")]
                 /\ gcp' = [gcp EXCEPT !._api_resource = TRUE]
            ELSE \E res \in Responses(svc[name], name) :
                    IF res.url = NoUrl
                    THEN /\ rt' = [rt EXCEPT ![t] = RunRaised(r1, "url")]
                         /\ gcp' = [gcp EXCEPT !._api_resource = TRUE]
                    ELSE LET g == [gcp EXCEPT !._api_resource = TRUE,
                                              !._service_url = res.url]
                         IN  IF r.pc = "i_get"
                             THEN /\ gcp' = BuildSession(g, r.route)
                                  /\ rt' = [rt EXCEPT ![t] =
                                              [r1 EXCEPT !.pc = "i_sess", !.built = TRUE]]
                             ELSE /\ gcp' = g
                                  /\ rt' = [rt EXCEPT ![t] = [r1 EXCEPT !.pc = "i_post"]]
    /\ UNCHANGED <<svc, IbmVars>>

(***************************************************************************)
(* _build_invoker_sess, line 91: the session returned is the one the       *)
(* attribute holds at that moment; then invoke, line 159, asks for the     *)
(* endpoint (_get_service_endpoint, line 94)                               *)
(***************************************************************************)
ReturnSession(t) ==
    /\ rt[t].pc = "i_sess"
    /\ rt' = [rt EXCEPT ![t].sess = gcp._invoker_sess,
                        ![t].pc = IF gcp._service_url = NoUrl THEN "i_get_post"
                                  ELSE "i_post"]
    /\ UNCHANGED <<svc, gcp, IbmVars>>

\* invoke, lines 161-165: what invoke returns for this response, "KeyError"
\* standing for the exception of data["activationId"]
InvokeResult(status, body, return_result) ==
    IF status \in {200, 202}
    THEN IF return_result THEN body
         ELSE IF body = "activationId" THEN "activationId" ELSE "KeyError"
    ELSE NONE

\* the end of an operation whose invoke returned ret: invoke itself, or
\* _generate_runtime_meta, lines 137-140, and create_runtime, line 281
Finish(r, ret) ==
    IF ret = "KeyError" THEN RunRaised(r, "activationId")
    ELSE IF r.nested /\ ret # "preinstalls" THEN RunRaised(r, "runtime_meta")
    ELSE [r EXCEPT !.pc = "done", !.outcome = "returned", !.ret = ret]

(***************************************************************************)
(* invoke, lines 159-165: the POST to the endpoint                         *)
(***************************************************************************)
PostPayload(t) ==
    /\ rt[t].pc = "i_post"
    /\ \E ok \in BOOLEAN :
        LET r == rt[t]
            target == [url |-> gcp._service_url, route |-> r.route]
            r1 == [r EXCEPT !.calls = Append(r.calls, Call("post", target.url, ok)),
                            !.posted_to = target]
        IN  IF ~ok
            THEN rt' = [rt EXCEPT ![t] = RunRaised(r1, "post")]
            ELSE \E status \in StatusCodes, body \in Bodies :
                    rt' = [rt EXCEPT ![t] =
                             Finish([r1 EXCEPT !.status = status],
                                    InvokeResult(status, body, r.return_result))]
    /\ UNCHANGED <<svc, gcp, IbmVars>>

(***************************************************************************)
(* create_runtime, lines 205-211, with _build_default_runtime              *)
(***************************************************************************)
CallCreateRuntime(t, runtime_name, memory) ==
    /\ rt[t].pc = "idle"
    /\ LET r == [RunIdle EXCEPT
                    !.op = "create_runtime", !.runtime_name = runtime_name,
                    !.memory = memory, !.pc = "r_create",
                    !.existed_at_call =
                        svc[_format_service_name(runtime_name, memory)] # "absent"]
       IN  \E built \in BOOLEAN :
              rt' = [rt EXCEPT ![t] =
                       IF runtime_name = DEFAULT_RUNTIME_NAME /\ ~built
                       THEN RunRaised(r, "build") ELSE r]
    /\ UNCHANGED <<svc, gcp, IbmVars>>

\* create_runtime, line 262
Retries == 15

(***************************************************************************)
(* create_runtime, lines 255-262: services.create                          *)
(***************************************************************************)
CreateService(t) ==
    /\ rt[t].pc = "r_create"
    /\ \E ok \in BOOLEAN :
        LET r == rt[t]
            name == _format_service_name(r.runtime_name, r.memory)
            accepted == ok /\ svc[name] = "absent"
            r1 == [r EXCEPT !.calls = Append(r.calls, Call("services.create", name, accepted))]
        IN  IF accepted
            THEN /\ svc' = [svc EXCEPT ![name] = "provisioning"]
                 /\ rt' = [rt EXCEPT ![t] = [r1 EXCEPT !.pc = "r_poll", !.retry = Retries]]
            ELSE /\ svc' = svc
                 /\ rt' = [rt EXCEPT ![t] = RunRaised(r1, "create")]
    /\ gcp' = [gcp EXCEPT !._api_resource = TRUE]
    /\ UNCHANGED IbmVars

BudgetExhaustedLate(retry) == retry = -1

\* create_runtime, line 275
BudgetExhausted(retry) == retry = 0

ReadyIfAny(conditions) == \E k \in 1..Len(conditions) : conditions[k] = "True"

\* create_runtime, line 269
Ready(conditions) == \A k \in 1..Len(conditions) : conditions[k] = "True"

(***************************************************************************)
(* create_runtime, lines 263-280: one turn of the loop, and on leaving it  *)
(* the call of _generate_runtime_meta, lines 129-133, which enters invoke  *)
(***************************************************************************)
PollService(t) ==
    /\ rt[t].pc = "r_poll"
    /\ \E ok \in BOOLEAN :
        LET r == rt[t]
            name == _format_service_name(r.runtime_name, r.memory)
            found == ok /\ svc[name] # "absent"
            call == Call("services.get", name, found)
            r1 == [r EXCEPT !.polls = r.polls + 1,
                            \* the polls of one wait are logged once
                            !.calls = IF r.calls[Len(r.calls)] = call
                                      THEN r.calls ELSE Append(r.calls, call)]
        IN  IF ~found
            THEN /\ rt' = [rt EXCEPT ![t] = RunRaised(r1, "get")]
                 /\ gcp' = gcp
            ELSE \E res \in Responses(svc[name], name) :
                    IF ~Ready(res.conditions)
                    THEN /\ rt' = [rt EXCEPT ![t] =
                                     IF BudgetExhausted(r.retry - 1)
                                     THEN RunRaised([r1 EXCEPT !.res = res,
                                                               !.retry = r.retry - 1],
                                                    "max_retries")
                                     ELSE [r1 EXCEPT !.res = res, !.retry = r.retry - 1]]
                         /\ gcp' = gcp
                    ELSE LET e == EnterInvoke(
                                    [r1 EXCEPT !.res = res, !.route = "/preinstalls",
                                               !.return_result = TRUE, !.nested = TRUE],
                                    [gcp EXCEPT !._service_url = res.url])
                         IN  /\ rt' = [rt EXCEPT ![t] = e[1]]
                             /\ gcp' = e[2]
    /\ UNCHANGED <<svc, IbmVars>>

\* the provider completes the provisioning of a service
ProgressService(name) ==
    /\ svc[name] = "provisioning"
    /\ svc' = [svc EXCEPT ![name] = "ready"]
    /\ UNCHANGED <<gcp, rt, IbmVars>>

\* the caller takes the result of its operation
RunReturn(t) ==
    /\ rt[t].pc = "done"
    /\ rt' = [rt EXCEPT ![t] = RunIdle]
    /\ UNCHANGED <<svc, gcp, IbmVars>>

\* a call of _format_service_name, lines 56-60
FormatName(t) ==
    /\ rt[t].pc = "n_format"
    /\ rt' = [rt EXCEPT ![t].pc = "n_unformat",
                        ![t].service_name =
                            _format_service_name(rt[t].runtime_name, rt[t].memory)]
    /\ UNCHANGED <<svc, gcp, IbmVars>>

\* a call of _unformat_service_name, lines 62-67, with the name formatted
UnformatName(t) ==
    /\ rt[t].pc = "n_unformat"
    /\ rt' = [rt EXCEPT ![t].pc = "done", ![t].outcome = "returned",
                        ![t].unformatted = _unformat_service_name(rt[t].service_name)]
    /\ UNCHANGED <<svc, gcp, IbmVars>>

\* no other caller is inside an operation of the backend
RunAlone(t) == \A u \in Threads \ {t} : rt[u].pc = "idle"

\* the steps of create and of _delete_instance
CreateSteps(t) ==
    \/ CreateListInstances(t)
    \/ CreateInstance(t)
    \/ CreateListFloatingIps(t)
    \/ CreateFloatingIp(t)
    \/ AttachFloatingIp(t)
    \/ DeleteListInterfaces(t)
    \/ DeleteFloatingIp(t)
    \/ DeleteInstance(t)

(***************************************************************************)
(* Spec: one caller, one operation after the other, on a client whose      *)
(* config sets delete_on_dismantle; the operations are create and stop     *)
(***************************************************************************)
Init == InitWith(TRUE) /\ InitRunVars

Next ==
    \E t \in {"t1"} :
        \/ \E id \in Identities : Alone(t) /\ CallCreate(t, id[1], id[2])
        \/ Alone(t) /\ CallStop(t)
        \/ CreateSteps(t)
        \/ Return(t)

Spec == Init /\ [][Next]_vars

(***************************************************************************)
(* SpecSuspend: one caller, one operation after the other, on a client     *)
(* whose config clears delete_on_dismantle; the operations are create for  *)
(* one identity, stop and start                                            *)
(***************************************************************************)
InitSuspend == InitWith(FALSE) /\ InitRunVars

NextSuspend ==
    \E t \in {"t1"} :
        \/ Alone(t) /\ CallCreate(t, "a", "c")
        \/ Alone(t) /\ CallStop(t)
        \/ Alone(t) /\ CallStart(t)
        \/ CreateSteps(t)
        \/ AuthorizeSession(t)
        \/ CompleteRefresh(t)
        \/ StoreToken(t)
        \/ SetHeader(t)
        \/ ActionPost(t)
        \/ ActionPoll(t)
        \/ \E i \in InstIds : Progress(i)
        \/ Return(t)

SpecSuspend == InitSuspend /\ [][NextSuspend]_vars

(***************************************************************************)
(* SpecRace: two callers of one client object run create for the same      *)
(* identity at the same time; their steps interleave freely                *)
(***************************************************************************)
NextRace ==
    \E t \in Threads :
        \/ CallCreate(t, "a", "c")
        \/ CreateSteps(t)
        \/ Return(t)

SpecRace == Init /\ [][NextRace]_vars

\* the steps of create_instance_action and of get_instance
WaitSteps(t) ==
    \/ AuthorizeSession(t)
    \/ CompleteRefresh(t)
    \/ StoreToken(t)
    \/ SetHeader(t)
    \/ ActionPost(t)
    \/ ActionPoll(t)

(***************************************************************************)
(* SpecWait: SpecSuspend with a caller that keeps running: a step of       *)
(* create_instance_action that can be taken is taken.  Nothing is assumed  *)
(* of the provider: an instance may stay in the status it has.             *)
(***************************************************************************)
SpecWait ==
    InitSuspend /\ [][NextSuspend]_vars /\ WF_vars(\E t \in {"t1"} : WaitSteps(t))

(***************************************************************************)
(* SpecAuth: a client constructed with a config that names an existing     *)
(* instance (line 27) and clears delete_on_dismantle; callers run start    *)
(* and stop at the same time, and the cached token may expire              *)
(***************************************************************************)
InitAuth ==
    /\ inst = [i \in InstIds |->
                 IF i = 1
                 THEN [name |-> _generate_name("instance", "a", "c", NONE),
                       status |-> "running"]
                 ELSE Absent]
    /\ fip = [f \in FipIds |-> NoFip]
    /\ nextInst = 2
    /\ nextFip = 1
    /\ obj = [instance_id |-> 1, instance_data |-> NONE]
    /\ config = [instance_id |-> 1, ip_address |-> NoId,
                 delete_on_dismantle |-> FALSE, token |-> 0]
    /\ session_auth = 0
    /\ tm = [token |-> 0, valid |-> FALSE, refreshing |-> FALSE, issued |-> 0, epoch |-> 1]
    /\ th = [t \in Threads |-> Idle]
    /\ last = NoLast
    /\ InitRunVars

NextAuth ==
    \/ \E t \in Threads :
        \/ CallStart(t)
        \/ CallStop(t)
        \/ WaitSteps(t)
        \/ Return(t)
    \/ \E i \in InstIds : Progress(i)
    \/ Expire

SpecAuth == InitAuth /\ [][NextAuth]_vars

(***************************************************************************)
(* SpecRun: one caller of a GCPCloudRunBackend, one operation after the    *)
(* other; the operations are create_runtime and invoke                     *)
(***************************************************************************)
InitRun == InitWith(TRUE) /\ InitRunVars

NextRun ==
    \/ \E t \in {"t1"} :
        \/ \E n \in RuntimeNames, m \in Memories : RunAlone(t) /\ CallCreateRuntime(t, n, m)
        \/ \E n \in RuntimeNames, m \in Memories, route \in Routes, rr \in BOOLEAN :
              RunAlone(t) /\ CallInvoke(t, n, m, route, rr)
        \/ CreateService(t)
        \/ PollService(t)
        \/ GetEndpoint(t)
        \/ ReturnSession(t)
        \/ PostPayload(t)
        \/ RunReturn(t)
    \/ \E name \in ServiceNames : ProgressService(name)

SpecRun == InitRun /\ [][NextRun]_vars

(***************************************************************************)
(* SpecGenerate: _generate_name is applied to two pairs of a job key and a *)
(* call id, both given                                                     *)
(***************************************************************************)
InitGenerate ==
    /\ inst = [i \in InstIds |-> Absent]
    /\ fip = [f \in FipIds |-> NoFip]
    /\ nextInst = 1
    /\ nextFip = 1
    /\ obj = [instance_id |-> NoId, instance_data |-> NONE]
    /\ config = [instance_id |-> NoId, ip_address |-> NoId,
                 delete_on_dismantle |-> TRUE, token |-> 0]
    /\ session_auth = 0
    /\ tm = [token |-> 0, valid |-> FALSE, refreshing |-> FALSE, issued |-> 0, epoch |-> 1]
    /\ \E ids \in [Threads -> Keys \X Keys] :
          th = [t \in Threads |->
                  [Idle EXCEPT !.op = "name", !.pc = "name",
                               !.job_key = ids[t][1], !.call_id = ids[t][2]]]
    /\ last = NoLast
    /\ InitRunVars

NextGenerate ==
    \E t \in Threads :
        \/ GenerateName(t)
        \/ Return(t)

SpecGenerate == InitGenerate /\ [][NextGenerate]_vars

(***************************************************************************)
(* SpecNames: _format_service_name is applied to a runtime name and a      *)
(* memory size, then _unformat_service_name to its result                  *)
(***************************************************************************)
InitNames ==
    /\ InitWith(TRUE)
    /\ svc = [n \in ServiceNames |-> "absent"]
    /\ gcp = [_invoker_sess |-> NoSess, _invoker_sess_route |-> "/",
              _service_url |-> NoUrl, _api_resource |-> FALSE]
    /\ \E n \in NameInputs, m \in Memories :
          rt = [t \in Threads |->
                  IF t = "t1"
                  THEN [RunIdle EXCEPT !.op = "names", !.pc = "n_format",
                                       !.runtime_name = n, !.memory = m]
                  ELSE RunIdle]

NextNames ==
    \E t \in {"t1"} :
        \/ FormatName(t)
        \/ UnformatName(t)
        \/ RunReturn(t)

SpecNames == InitNames /\ [][NextNames]_vars

(***************************************************************************)
(* SpecRunRace: two callers run invoke at the same time on a backend       *)
(* object constructed while the services exist and are ready               *)
(***************************************************************************)
InitRunRace ==
    /\ InitWith(TRUE)
    /\ svc = [n \in ServiceNames |-> "ready"]
    /\ gcp = [_invoker_sess |-> NoSess, _invoker_sess_route |-> "/",
              _service_url |-> NoUrl, _api_resource |-> FALSE]
    /\ rt = [t \in Threads |-> RunIdle]

NextRunRace ==
    \E t \in Threads :
        \/ \E m \in Memories, route \in Routes :
              CallInvoke(t, DEFAULT_RUNTIME_NAME, m, route, FALSE)
        \/ GetEndpoint(t)
        \/ ReturnSession(t)
        \/ PostPayload(t)
        \/ RunReturn(t)

SpecRunRace == InitRunRace /\ [][NextRunRace]_vars

(***************************************************************************)
(* Properties of create and of the teardown, under Spec                    *)
(***************************************************************************)

\* caller t has just completed create(job_key, call_id), with both given,
\* right after a create with the same job_key and call_id that returned
SecondCreateReturned(t) ==
    /\ th[t].pc = "done" /\ th[t].op = "create" /\ th[t].outcome = "returned"
    /\ th[t].job_key # NONE /\ th[t].call_id # NONE
    /\ last.job_key = th[t].job_key /\ last.call_id = th[t].call_id

C2_RollbackDeletesInstance ==
    \A t \in Threads :
        LET r == th[t]
        IN  (r.pc = "done" /\ r.op = "create" /\ r.outcome = "raised" /\ r.created # NoId)
            => \E k \in 1..Len(r.calls) : r.calls[k] = Call("delete_instance", r.created, TRUE)

\* C3: when create allocated a floating ip, the attachment failed and create
\* raises that error after its rollback, the floating ip it allocated is no
\* longer allocated.
C3_RollbackReleasesFloatingIp ==
    \A t \in Threads :
        LET r == th[t]
        IN  (r.pc = "done" /\ r.op = "create" /\ r.err = "floating_ip"
                /\ r.allocated # NoId)
            => ~FipExists(r.allocated)

\* caller t is in stop() on a client that deletes on dismantle
InTeardown(t) == th[t].op = "stop" /\ config.delete_on_dismantle

\* C8: in a teardown, delete_instance is issued only after every floating ip
\* listed for the instance has been released by a delete_floating_ip call that
\* succeeded, and at the moment it is issued no floating ip is attached to the
\* instance.
C8_ReleaseBeforeDelete ==
    \A t \in Threads :
        InTeardown(t) =>
            LET r == th[t]
            IN  /\ \A k \in 1..Len(r.calls) :
                     r.calls[k].api = "delete_instance" =>
                        \A j \in 1..Len(r.listed) : \E m \in 1..(k - 1) :
                           r.calls[m] = Call("delete_floating_ip", r.listed[j], TRUE)
                /\ r.pc = "d_inst" =>
                     \A f \in FipIds : fip[f].target # config.instance_id

\* C8, its case: a teardown has issued delete_instance for an instance that
\* was listed with two floating ips
C8_Witness ==
    \E t \in Threads :
        /\ InTeardown(t)
        /\ Len(th[t].listed) = 2
        /\ \E k \in 1..Len(th[t].calls) : th[t].calls[k].api = "delete_instance"

\* C9: a teardown in which the release of a floating ip failed has still
\* attempted the release of every listed floating ip and the deletion of the
\* instance when it ends.
C9_TeardownBestEffort ==
    \A t \in Threads :
        LET r == th[t]
        IN  (/\ InTeardown(t) /\ r.pc = "done"
             /\ \E k \in 1..Len(r.calls) :
                   r.calls[k].api = "delete_floating_ip" /\ ~r.calls[k].ok)
            => /\ \E k \in 1..Len(r.calls) : r.calls[k].api = "delete_instance"
               /\ \A j \in 1..Len(r.listed) : \E k \in 1..Len(r.calls) :
                     r.calls[k].api = "delete_floating_ip" /\ r.calls[k].arg = r.listed[j]

\* C12: when create reaches _create_and_attach_floating_ip while a floating ip
\* of the derived name is attached to the instance it passes, it issues no
\* create_floating_ip and no add_floating_ip call and can only end by returning
\* that floating ip; and no two floating ips carry the same name.
C12_AttachIdempotent ==
    /\ \A t \in Threads :
          (th[t].op = "create" /\ th[t].bound # NoId) =>
              LET r == th[t]
              IN  /\ \A k \in 1..Len(r.calls) :
                       r.calls[k].api \notin {"create_floating_ip", "add_floating_ip"}
                  /\ r.pc = "done" => r.outcome = "returned" /\ r.floating_ip = r.bound
    /\ \A f, g \in FipIds : (FipExists(f) /\ FipExists(g) /\ fip[f].name = fip[g].name) => f = g

\* C22: on the adopt path of create, the instance handed to
\* _create_and_attach_floating_ip is the instance whose name matched, the one
\* whose id create keeps in instance_id and returns.
C22_AdoptedInstancePassed ==
    \A t \in Threads :
        (th[t].op = "create" /\ th[t].vsi_exists /\ th[t].pc # "c_list") =>
            th[t].instance = obj.instance_id

\* C23: after create has returned, on the create path or on the adopt path,
\* instance_id and config['instance_id'] are both the id create returned.
C23_InstanceIdsAgree ==
    \A t \in Threads :
        (th[t].op = "create" /\ th[t].pc = "done" /\ th[t].outcome = "returned") =>
            /\ obj.instance_id = th[t].ret
            /\ config.instance_id = th[t].ret

\* caller t is in create between its existence check, which found no instance
\* of the derived name, and its create_instance call
AboutToCreate(t) == th[t].op = "create" /\ th[t].pc = "c_create"

\* C13: of two callers that are in create for the same job_key and call_id at
\* the same time, at most one is between an existence check that found nothing
\* and its create_instance call, and at most one instance carries the derived
\* name.
C13_CreateSerialized ==
    \A t, u \in Threads :
        (/\ t # u
         /\ th[t].op = "create" /\ th[u].op = "create"
         /\ th[t].job_key # NONE /\ th[t].call_id # NONE
         /\ th[t].job_key = th[u].job_key /\ th[t].call_id = th[u].call_id)
        => /\ ~(AboutToCreate(t) /\ AboutToCreate(u))
           /\ Cardinality({i \in InstIds : inst[i].name =
                  _generate_name("instance", th[t].job_key, th[t].call_id, NONE)}) <= 1

(***************************************************************************)
(* Properties of the suspending stop, under SpecSuspend                    *)
(***************************************************************************)

\* caller t is in stop() on a client that does not delete on dismantle
InSuspend(t) == th[t].op = "stop" /\ ~config.delete_on_dismantle

\* C10: a stop() on a client that does not delete on dismantle issues no
\* list_instance_network_interfaces, delete_floating_ip or delete_instance call;
\* when it returns it has issued a 'stop' action that the provider accepted,
\* and the instance status it observed last is 'stopped'.
C10_SuspendReleasesNothing ==
    \A t \in Threads :
        InSuspend(t) =>
            LET r == th[t]
            IN  /\ \A k \in 1..Len(r.calls) :
                     r.calls[k].api \in {"stop", "get_instance"}
                /\ (r.pc = "done" /\ r.outcome = "returned") =>
                     /\ r.calls[1] = Call("stop", config.instance_id, TRUE)
                     /\ obj.instance_data = "stopped"

\* C10, its case: a suspending stop has returned
C10_Witness ==
    \E t \in Threads :
        InSuspend(t) /\ th[t].pc = "done" /\ th[t].outcome = "returned"

\* caller t is inside create_instance_action, called by start() or by the
\* suspending stop()
InAction(t) == th[t].op \in {"start", "stop"} /\ th[t].pc \notin {"idle", "done"}

\* C11: every start() and every suspending stop() ends, by a return or by an
\* exception, whatever statuses the instance reports.
C11_WaitTerminates ==
    \A t \in Threads : InAction(t) ~> th[t].pc = "done"

(***************************************************************************)
(* Properties of the credential cache, under SpecAuth                      *)
(***************************************************************************)

\* caller t has got a token from its last _authorize_session
HasToken(t) == th[t].pc # "idle" /\ th[t].token # 0

\* C14: at most one refresh is in flight; no more tokens have been fetched
\* than there were periods without a valid cached token; and callers that
\* authorized in the same such period got the identical token.
C14_SingleFlight ==
    /\ Cardinality({t \in Threads : th[t].pc \in {"a_refresh", "g_refresh"}}) <= 1
    /\ tm.issued <= tm.epoch
    /\ \A t, u \in Threads :
          (HasToken(t) /\ HasToken(u) /\ th[t].epoch = th[u].epoch)
              => th[t].token = th[u].token

\* C14, its case: two callers authorized at the same time, starting from an
\* empty cache, and one refresh served both
C14_Witness ==
    \E t, u \in Threads :
        /\ t # u /\ HasToken(t) /\ HasToken(u)
        /\ th[t].epoch = 1 /\ th[u].epoch = 1
        /\ tm.issued = 1

\* caller t is in _authorize_session
InAuthorize(t) ==
    th[t].pc \in {"a_auth", "g_auth", "a_refresh", "g_refresh",
                  "a_store", "g_store", "a_header", "g_header"}

\* C24: whenever no caller is inside _authorize_session, the Authorization
\* header carries the token of config['token'], and that token is the one
\* get_token returned last.
C24_LatestTokenWins ==
    (\A t \in Threads : ~InAuthorize(t)) =>
        /\ session_auth = config.token
        /\ config.token = tm.token

\* caller t is in _authorize_session, in a refresh of get_token
InRefresh(t) == th[t].pc \in {"a_refresh", "g_refresh"}

\* C15: a step in which get_token raises inside _authorize_session ends the
\* operation with that error and leaves config (with config['token'] and
\* config['token_expiry_time']) and the Authorization header as they were.
C15_FailedRefreshKeepsCredential ==
    [][\A t \in Threads :
          (InRefresh(t) /\ th'[t].err = "auth") =>
              /\ th'[t].pc = "done" /\ th'[t].outcome = "raised"
              /\ config' = config
              /\ session_auth' = session_auth]_vars

\* C15, its case: a refresh failed while the token of an earlier refresh was
\* cached
C15_Witness ==
    \E t \in Threads :
        th[t].pc = "done" /\ th[t].err = "auth" /\ session_auth # 0 /\ config.token # 0

(***************************************************************************)
(* Properties of the Cloud Run backend, under SpecRun                      *)
(***************************************************************************)

\* caller t is in create_runtime and has left the polling loop as ready
LeftLoopReady(t) ==
    /\ rt[t].op = "create_runtime" /\ rt[t].nested

\* C4: create_runtime issues at most 15 status polls and never polls with its
\* budget used up; when it has left the loop as ready, the last response was
\* ready and its url, which is not empty, is the stored endpoint; when the 15th
\* poll is not ready either, create_runtime has raised with that response.
C4_PollingBounded ==
    \A t \in Threads :
        rt[t].op = "create_runtime" =>
            LET r == rt[t]
            IN  /\ r.polls <= 15
                /\ r.pc = "r_poll" => r.polls < 15 /\ r.retry = 15 - r.polls
                /\ LeftLoopReady(t) =>
                     /\ Reconciled(r.res.conditions)
                     /\ gcp._service_url = r.res.url
                     /\ gcp._service_url # NoUrl
                /\ (r.polls = 15 /\ ~LeftLoopReady(t) /\ r.err # "get") =>
                     /\ r.pc = "done" /\ r.outcome = "raised" /\ r.err = "max_retries"
                     /\ ~Reconciled(r.res.conditions)

\* C4, its case: the budget of 15 polls is used up and create_runtime raised
C4_Witness ==
    \E t \in Threads : rt[t].polls = 15 /\ rt[t].err = "max_retries"

\* C5: a create_runtime called while a service of the derived name exists
\* issues no services.create call and does not fail on the creation.
C5_CreateOrAdopt ==
    \A t \in Threads :
        (rt[t].op = "create_runtime" /\ rt[t].existed_at_call) =>
            /\ \A k \in 1..Len(rt[t].calls) : rt[t].calls[k].api # "services.create"
            /\ rt[t].err # "create"

\* C6: an invoke called while its service is not ready issues no remote call,
\* neither services.get nor a POST, and ends by raising.
C6_InvokeNotReady ==
    \A t \in Threads :
        (rt[t].op = "invoke" /\ ~rt[t].ready_at_call) =>
            /\ rt[t].calls = <<>>
            /\ rt[t].pc = "done" => rt[t].outcome = "raised"

\* C7: an invoke whose POST was answered with a status other than 200 and 202
\* ends by raising.
C7_NonSuccessRaises ==
    \A t \in Threads :
        (/\ rt[t].op = "invoke" /\ rt[t].pc = "done"
         /\ rt[t].status # 0 /\ rt[t].status \notin {200, 202})
        => rt[t].outcome = "raised"

\* every entry of conditions has status 'True'
AllTrue(conditions) == \A k \in DOMAIN conditions : conditions[k] = "True"

\* C18: a poll of create_runtime leaves the loop as ready only with a response
\* in which every condition has status 'True', and then stores the url of that
\* response; a poll answered with at least one condition that is not 'True'
\* does not leave the loop as ready and leaves the stored endpoint as it was:
\* create_runtime polls again or raises.
C18_ReadyIsConjunction ==
    [][\A t \in Threads :
          (rt[t].pc = "r_poll" /\ rt'[t] # rt[t]) =>
              LET after == rt'[t]
                  answered == after.err # "get"
              IN  /\ after.nested =>
                       /\ answered /\ AllTrue(after.res.conditions)
                       /\ gcp'._service_url = after.res.url
                  /\ (answered /\ ~AllTrue(after.res.conditions)) =>
                       /\ ~after.nested
                       /\ gcp'._service_url = gcp._service_url
                       /\ after.pc \in {"r_poll", "done"}
                       /\ after.pc = "done" => after.outcome = "raised"]_vars

\* C18, its case: a poll was answered with one condition 'True' and another
\* not, and create_runtime is still in the loop with no endpoint stored
C18_Witness ==
    \E t \in Threads :
        /\ rt[t].op = "create_runtime" /\ rt[t].pc = "r_poll" /\ rt[t].polls >= 1
        /\ \E k \in DOMAIN rt[t].res.conditions : rt[t].res.conditions[k] = "True"
        /\ \E k \in DOMAIN rt[t].res.conditions : rt[t].res.conditions[k] # "True"
        /\ gcp._service_url = NoUrl

\* caller t has sent the POST of an invoke
Posted(t) == rt[t].posted_to # NoSess

\* C19: the POST of an invoke, also of the one create_runtime makes, goes to
\* the url of the service derived from the runtime name and memory of the
\* call, followed by the route of the call.
C19_InvokeRoutesToNamedUnit ==
    \A t \in Threads :
        Posted(t) =>
            /\ rt[t].posted_to.url =
                  Url(_format_service_name(rt[t].runtime_name, rt[t].memory))
            /\ rt[t].posted_to.route = rt[t].route

\* C20: with one caller at a time, the session an invoke sends its POST with
\* was built for the route of the call; the invoke built a session exactly
\* when it found no cached session or a cached route other than its own, and
\* otherwise it sends with the cached session; the cached route is the route
\* of the cached session.
C20_SessionScopedToRoute ==
    /\ gcp._invoker_sess # NoSess => gcp._invoker_sess.route = gcp._invoker_sess_route
    /\ \A t \in Threads :
          Posted(t) =>
              LET r == rt[t]
              IN  /\ r.sess # NoSess /\ r.sess.route = r.route
                  /\ r.built <=> (r.cached_sess = NoSess \/ r.cached_route # r.route)
                  /\ ~r.built => r.sess = r.cached_sess

\* C20, its case: an invoke found a session cached for another route, built
\* a session for its own and has sent its POST
C20_Witness ==
    \E t \in Threads :
        /\ Posted(t) /\ rt[t].op = "invoke"
        /\ rt[t].cached_sess # NoSess /\ rt[t].cached_route # rt[t].route
        /\ rt[t].built

\* C21: also with two callers in invoke at the same time, the session an
\* invoke sends its POST with was built for the route of that invoke.
C21_SessionScopedToRouteConcurrent ==
    \A t \in Threads :
        (Posted(t) /\ rt[t].op = "invoke") =>
            rt[t].sess # NoSess /\ rt[t].sess.route = rt[t].route

(***************************************************************************)
(* Properties of the resource names, under SpecGenerate                    *)
(***************************************************************************)

\* C17: two names that _generate_name returned for the same resource type and
\* for pairs of job key and call id, both given, are equal exactly when the
\* pairs are.
C17_NamesCollisionFree ==
    \A t, u \in Threads :
        (/\ th[t].op = "name" /\ th[t].pc = "done"
         /\ th[u].op = "name" /\ th[u].pc = "done"
         /\ th[t].r_type = th[u].r_type)
        => (th[t].name = th[u].name
               <=> (th[t].job_key = th[u].job_key /\ th[t].call_id = th[u].call_id))

(***************************************************************************)
(* Properties of the service names, under SpecNames                        *)
(***************************************************************************)

\* C16: _unformat_service_name applied to the name _format_service_name made
\* of a runtime name and a memory size returns that runtime name and that
\* memory size.
C16_NameRoundTrip ==
    \A t \in Threads :
        (rt[t].op = "names" /\ rt[t].pc = "done") =>
            rt[t].unformatted = <<rt[t].runtime_name, rt[t].memory>>
====
